---- MODULE Spec2Model ----
(***************************************************************************)
(* A model of clarity's ABI encoder (src/src/abi.rs): Token::serialize,    *)
(* encode_tokens, derive_signature, derive_method_id and encode_call.      *)
(*                                                                         *)
(* Bytes are naturals 0..255, byte buffers are sequences of bytes.  A      *)
(* Uint256 is held as its big-endian base-256 digits without leading zero  *)
(* digits (zero is the empty sequence), so values of 2^256 and above can   *)
(* be written down.  A String is held as its UTF-8 bytes.                  *)
(***************************************************************************)
EXTENDS Naturals, Sequences

VARIABLES
    tokens,          \* encode_tokens' argument: the sequence of Tokens
    overflow_checks, \* the build: TRUE panics on usize overflow (debug), FALSE wraps
    sig,             \* encode_call's signature text
    pc,              \* position in encode_call / encode_tokens
    idx,             \* number of tokens the first loop has consumed
    last,            \* the SerializedToken the first loop matched on last
    res,             \* encode_tokens' result buffer
    dynamic_data,    \* encode_tokens' cache of dynamic buffers
    cat,             \* number of dynamic buffers the second loop has appended
    ret,             \* what encode_tokens returned
    wtr,             \* encode_call's buffer
    call_ret,        \* what encode_call returned
    caller,          \* "encode_call" when encode_tokens runs inside it, else ""
    panic,           \* the message of the panic that ended the call, or ""
    frames           \* the locals of each of several encode_tokens calls in flight

vars == <<tokens, overflow_checks, sig, pc, idx, last, res, dynamic_data, cat,
          ret, wtr, call_ret, caller, panic, frames>>

----------------------------------------------------------------------------
(* Bounds of the model. *)

\* Longest token sequence handed to encode_tokens.
MaxTokens == 3

\* Longest payload, in bytes, of a String, Bytes, UnboundedBytes or Uint token.
MaxPayload == 33

\* Longest Dynamic array.
MaxArray == 3

----------------------------------------------------------------------------
(* Buffers. *)

Zeros(n) == [k \in 1..n |-> 0]

\* A payload of n non-zero bytes, so that padding is told from payload.
Payload(n) == [k \in 1..n |-> ((7 * k) % 255) + 1]

----------------------------------------------------------------------------
(* num256::Uint256 as the encoder uses it. *)

\* Uint256::to_bytes_be: the big-endian digits, a single 0 byte for zero.
to_bytes_be(value) == IF value = <<>> THEN <<0>> ELSE value

\* Number of significant bits of one byte.
ByteBits(b) ==
    IF b >= 128 THEN 8 ELSE IF b >= 64 THEN 7 ELSE IF b >= 32 THEN 6
    ELSE IF b >= 16 THEN 5 ELSE IF b >= 8 THEN 4 ELSE IF b >= 4 THEN 3
    ELSE IF b >= 2 THEN 2 ELSE b

\* Uint256::bits: the bit length, 0 for zero.
bits(value) ==
    IF value = <<>> THEN 0 ELSE 8 * (Len(value) - 1) + ByteBits(value[1])

\* Uint256::from_bytes_be: the value of a big-endian buffer, which is its
\* digits from the first non-zero byte on.
RECURSIVE from_bytes_be(_)
from_bytes_be(bytes) ==
    IF bytes = <<>> THEN <<>>
    ELSE IF Head(bytes) = 0 THEN from_bytes_be(Tail(bytes))
    ELSE bytes

\* Uint256::from(u64): the digits of n.
RECURSIVE FromU64(_)
FromU64(n) == IF n = 0 THEN <<>> ELSE Append(FromU64(n \div 256), n % 256)

----------------------------------------------------------------------------
(* Token and SerializedToken. *)

Uint(v) == [kind |-> "Uint", v |-> v]
Address(v) == [kind |-> "Address", v |-> v]
Bool(v) == [kind |-> "Bool", v |-> v]
String(v) == [kind |-> "String", v |-> v]
Bytes(v) == [kind |-> "Bytes", v |-> v]
UnboundedBytes(v) == [kind |-> "UnboundedBytes", v |-> v]
Dynamic(v) == [kind |-> "Dynamic", v |-> v]

Static(data) == [tag |-> "Static", data |-> data, panic |-> ""]
DynamicData(data) == [tag |-> "Dynamic", data |-> data, panic |-> ""]
\* A panic inside serialize: no SerializedToken comes back.
Panicked(msg) == [tag |-> "Panic", data |-> <<>>, panic |-> msg]

\* SerializedToken::as_static_ref followed by unwrap/expect with message msg.
ExpectStatic(s, msg) ==
    IF s.tag = "Static" THEN s
    ELSE IF s.tag = "Panic" THEN s
    ELSE Panicked(msg)

----------------------------------------------------------------------------
(* Token::serialize, one operator per match arm. *)

\* SerializeUint copying the digits to the front of the word.
SerializeUintLeftAligned(value) ==
    IF bits(value) > 256 THEN Panicked("assertion failed: value.bits() <= 256")
    ELSE LET bytes == to_bytes_be(value)
         IN  Static([k \in 1..32 |-> IF k <= Len(bytes) THEN bytes[k] ELSE 0])

\* SerializeUint asserting that the value fits one byte.
SerializeUintOneByte(value) ==
    IF bits(value) > 8 THEN Panicked("assertion failed: value.bits() <= 256")
    ELSE LET bytes == to_bytes_be(value)
             start == 32 - Len(bytes)
         IN  Static([k \in 1..32 |-> IF k <= start THEN 0 ELSE bytes[k - start]])

SerializeUint(value) ==
    IF bits(value) > 256 THEN Panicked("assertion failed: value.bits() <= 256")
    ELSE LET bytes == to_bytes_be(value)
             start == 32 - Len(bytes)
         IN  Static([k \in 1..32 |-> IF k <= start THEN 0 ELSE bytes[k - start]])

SerializeBool(value) ==
    Static([k \in 1..32 |-> IF k = 32 /\ value THEN 1 ELSE 0])

\* SerializeBytes copying the value to the end of the word.
SerializeBytesRightAligned(value) ==
    IF Len(value) > 32 THEN Panicked("assertion failed: value.len() <= 32")
    ELSE LET start == 32 - Len(value)
         IN  Static([k \in 1..32 |-> IF k <= start THEN 0 ELSE value[k - start]])

\* SerializeBytes without its assertion: a longer value is cut to a word.
SerializeBytesTruncating(value) ==
    Static([k \in 1..32 |-> IF k <= Len(value) THEN value[k] ELSE 0])

SerializeBytes(value) ==
    IF Len(value) > 32 THEN Panicked("assertion failed: value.len() <= 32")
    ELSE Static([k \in 1..32 |-> IF k <= Len(value) THEN value[k] ELSE 0])

SerializeAddress(address) ==
    LET bytes == address
        start == 32 - Len(bytes)
    IN  Static([k \in 1..32 |-> IF k <= start THEN 0 ELSE bytes[k - start]])

\* `prefix: Token = (n as u64).into(); prefix.serialize().as_static_ref().unwrap()`
Prefix(n) ==
    ExpectStatic(SerializeUint(FromU64(n)),
                 "called Option::unwrap() on a None value")

\* PadRight aligning to 8 bytes instead of a word.
PadRightTo8(len) == IF len = 0 THEN 0 ELSE (((len - 1) \div 8) + 1) * 8

\* `(((len - 1) / 32) + 1) * 32` on usize where no step overflows (len >= 1),
\* and what wrapping arithmetic leaves for len = 0: 0 - 1 wraps to 2^W - 1,
\* (2^W - 1) / 32 = 2^(W-5) - 1, plus one is 2^(W-5), times 32 is 2^W, which
\* wraps to 0 (W = 32 or 64).
PadRight(len) == IF len = 0 THEN 0 ELSE (((len - 1) \div 32) + 1) * 32

\* The UnboundedBytes arm.  With overflow checks `v.len() - 1` panics for an
\* empty buffer.
SerializeUnboundedBytes(v, checks) ==
    LET prefix == Prefix(Len(v))
    IN  IF prefix.tag # "Static" THEN prefix
        ELSE IF Len(v) = 0 /\ checks
        THEN Panicked("attempt to subtract with overflow")
        ELSE DynamicData(prefix.data \o v \o Zeros(PadRight(Len(v)) - Len(v)))

\* The String arm: the same steps on s.len() and s.as_bytes().
SerializeString(s, checks) ==
    LET prefix == Prefix(Len(s))
    IN  IF prefix.tag # "Static" THEN prefix
        ELSE IF Len(s) = 0 /\ checks
        THEN Panicked("attempt to subtract with overflow")
        ELSE DynamicData(prefix.data \o s \o Zeros(PadRight(Len(s)) - Len(s)))

\* The Dynamic arm, given the elements' serializations in order: the first
\* element that is not Static ends the walk.
RECURSIVE ExtendStatic(_, _)
ExtendStatic(wtr0, sers) ==
    IF sers = <<>> THEN DynamicData(wtr0)
    ELSE LET s == ExpectStatic(Head(sers),
                      "Only nested tokens of static size are supported")
         IN  IF s.tag # "Static" THEN s
             ELSE ExtendStatic(wtr0 \o s.data, Tail(sers))

\* SerializeDynamic with the byte length of the elements as its prefix.
SerializeDynamicByteCount(n, sers) ==
    LET prefix == Prefix(32 * n)
    IN  IF prefix.tag # "Static" THEN prefix
        ELSE ExtendStatic(prefix.data, sers)

SerializeDynamic(n, sers) ==
    LET prefix == Prefix(n)
    IN  IF prefix.tag # "Static" THEN prefix
        ELSE ExtendStatic(prefix.data, sers)

RECURSIVE Serialize(_, _)
Serialize(token, checks) ==
    CASE token.kind = "Uint" -> SerializeUint(token.v)
      [] token.kind = "Bool" -> SerializeBool(token.v)
      [] token.kind = "Dynamic" ->
            SerializeDynamic(Len(token.v),
                [k \in 1..Len(token.v) |-> Serialize(token.v[k], checks)])
      [] token.kind = "UnboundedBytes" -> SerializeUnboundedBytes(token.v, checks)
      [] token.kind = "String" -> SerializeString(token.v, checks)
      [] token.kind = "Bytes" -> SerializeBytes(token.v)
      [] token.kind = "Address" -> SerializeAddress(token.v)

----------------------------------------------------------------------------
(* Signature hashing. *)

\* sha3's Keccak256::digest, tabulated on the signature texts of the model.
Keccak256(data) ==
    CASE data = "HelloWorld(string)" ->
            <<134, 6, 103, 80, 192, 253, 68, 87, 253, 22, 247, 151, 80, 145,
              79, 189, 114, 219, 149, 47, 47, 240, 167, 181, 198, 162, 165, 49,
              188, 21, 206, 44>>
      [] data = "baz(uint32,bool)" ->
            <<205, 205, 119, 192, 153, 46, 197, 187, 252, 69, 153, 132, 34, 15,
              140, 69, 8, 76, 194, 77, 155, 110, 254, 209, 250, 229, 64, 219,
              141, 232, 1, 210>>
      [] data = "sam(bytes,bool,uint256[])" ->
            <<165, 100, 59, 242, 126, 39, 134, 129, 102, 19, 211, 238, 176, 182,
              38, 80, 32, 11, 90, 152, 118, 109, 252, 253, 68, 40, 242, 150,
              251, 86, 208, 67>>
      [] data = "f(uint256,uint32[],bytes10,bytes)" ->
            <<139, 230, 82, 70, 88, 136, 160, 197, 214, 95, 201, 208, 167, 232,
              152, 185, 202, 152, 222, 151, 24, 92, 83, 165, 78, 196, 8, 253,
              47, 213, 212, 93>>

derive_signature(data) ==
    LET digest == Keccak256(data)
    IN  [k \in 1..32 |-> digest[k]]

\* derive_method_id taking the last four bytes of the digest.
derive_method_id_tail(signature) ==
    LET digest == derive_signature(signature)
    IN  [k \in 1..4 |-> digest[28 + k]]

derive_method_id(signature) ==
    LET digest == derive_signature(signature)
    IN  [k \in 1..4 |-> digest[k]]

----------------------------------------------------------------------------
(* The inputs of the model. *)

Signatures ==
    <<"HelloWorld(string)", "baz(uint32,bool)", "sam(bytes,bool,uint256[])",
      "f(uint256,uint32[],bytes10,bytes)">>

\* 0x00000000000000000000000000000000deadbeef
DeadBeef == Zeros(16) \o <<222, 173, 190, 239>>

\* "dave", "1234567890"
Dave == <<100, 97, 118, 101>>
Digits10 == <<49, 50, 51, 52, 53, 54, 55, 56, 57, 48>>

\* 2^256, the least Uint256 out of range: 1 followed by 32 zero digits.
TwoTo256 == <<1>> \o Zeros(32)

\* The tokens token sequences are drawn from: each kind, the boundary
\* payloads, and the three kinds of out-of-range value.
CoreTokens ==
    << Uint(<<69>>),
       Bool(TRUE),
       String(Dave),
       String(<<>>),
       UnboundedBytes(Payload(32)),
       Bytes(Digits10),
       Dynamic(<<Uint(<<1>>), Uint(<<2>>), Uint(<<3>>)>>),
       Address(DeadBeef),
       Bytes(Payload(33)),
       Dynamic(<<String(Dave)>>),
       Uint(TwoTo256) >>

\* A token of each scalar shape with a payload of len bytes.
ScalarShapes == 1..7
ScalarToken(shape, len) ==
    CASE shape = 1 -> Uint([k \in 1..len |-> 255])
      [] shape = 2 -> Uint([k \in 1..len |-> IF k = 1 THEN 1 ELSE 0])
      [] shape = 3 -> String(Payload(len))
      [] shape = 4 -> UnboundedBytes(Payload(len))
      [] shape = 5 -> Bytes(Payload(len))
      [] shape = 6 -> Bool(len % 2 = 1)
      [] shape = 7 -> Address([k \in 1..20 |-> (len + k) % 256])

\* The tokens Dynamic arrays are filled from.
ElemTokens ==
    << Uint(<<4, 86>>),
       Bool(TRUE),
       Bytes(Digits10),
       Address(DeadBeef),
       Uint(<<>>),
       String(Dave),
       Dynamic(<<>>),
       Uint(TwoTo256) >>

----------------------------------------------------------------------------
(* encode_tokens and encode_call as a state machine. *)

NotReturned == [returned |-> FALSE, bytes |-> <<>>]
Returned(bytes) == [returned |-> TRUE, bytes |-> bytes]
NoSerialized == [tag |-> "None", data |-> <<>>, panic |-> ""]

\* The locals of a call that has not run yet.
Fresh ==
    /\ idx = 0
    /\ last = NoSerialized
    /\ res = <<>>
    /\ dynamic_data = <<>>
    /\ cat = 0
    /\ ret = NotReturned
    /\ wtr = <<>>
    /\ call_ret = NotReturned
    /\ panic = ""

\* The argument: a sequence over CoreTokens, or one token of the wider sets.
InitTokens ==
    \/ \E n \in 0..MaxTokens :
         \E f \in [1..n -> 1..Len(CoreTokens)] :
            tokens = [k \in 1..n |-> CoreTokens[f[k]]]
    \/ \E len \in 0..MaxPayload :
         \E shape \in ScalarShapes :
            tokens = <<ScalarToken(shape, len)>>
    \/ \E n \in 0..MaxArray :
         \E f \in [1..n -> 1..Len(ElemTokens)] :
            tokens = <<Dynamic([k \in 1..n |-> ElemTokens[f[k]]])>>

\* A call of encode_tokens.
Init ==
    /\ InitTokens
    /\ overflow_checks \in BOOLEAN
    /\ sig = ""
    /\ caller = ""
    /\ pc = "loop"
    /\ Fresh
    /\ frames = <<>>

\* `.fold(tokens.len() as u64 * 32, |r, v| r + v)` over the buffers' lengths.
RECURSIVE Fold(_, _)
Fold(r, lens) == IF lens = <<>> THEN r ELSE Fold(r + Head(lens), Tail(lens))

\* DynamicOffset that leaves out the buffers stored so far.
DynamicOffsetBaseOnly(bufs, ntokens) == ntokens * 32

DynamicOffset(bufs, ntokens) ==
    Fold(ntokens * 32, [k \in 1..Len(bufs) |-> Len(bufs[k])])

\* NextBuffer walking the cache from its end.
NextBufferFromEnd(bufs, n) == bufs[Len(bufs) - n]

\* The buffer the second loop appends at its step number n (from 0).
NextBuffer(bufs, n) == bufs[n + 1]

\* A panic unwinds: the locals are dropped and nothing is returned.
Unwind(msg) ==
    /\ pc' = "panicked"
    /\ panic' = msg
    /\ res' = <<>>
    /\ dynamic_data' = <<>>
    /\ wtr' = <<>>
    /\ UNCHANGED <<cat, ret, call_ret>>

\* One iteration of `for token in tokens.iter()`, Static arm.
LoopStatic ==
    /\ pc = "loop"
    /\ idx < Len(tokens)
    /\ LET s == Serialize(tokens[idx + 1], overflow_checks)
       IN  /\ s.tag = "Static"
           /\ last' = s
           /\ res' = res \o s.data
    /\ idx' = idx + 1
    /\ UNCHANGED <<frames, tokens, overflow_checks, sig, pc, dynamic_data, cat, ret,
                   wtr, call_ret, caller, panic>>

\* LoopDynamic storing the buffer before the offset is computed.
LoopDynamicPushFirst ==
    /\ pc = "loop"
    /\ idx < Len(tokens)
    /\ LET s == Serialize(tokens[idx + 1], overflow_checks)
           stored == Append(dynamic_data, s.data)
           dynamic_offset == DynamicOffset(stored, Len(tokens))
           offset == SerializeUint(FromU64(dynamic_offset))
       IN  /\ s.tag = "Dynamic"
           /\ last' = s
           /\ IF offset.tag = "Static"
              THEN /\ dynamic_data' = stored
                   /\ res' = res \o offset.data
                   /\ UNCHANGED <<pc, panic, wtr, cat, ret, call_ret>>
              ELSE Unwind(IF offset.tag = "Panic" THEN offset.panic
                          ELSE "Offset token is expected to be static")
    /\ idx' = idx + 1
    /\ UNCHANGED <<frames, tokens, overflow_checks, sig, caller>>

\* One iteration, Dynamic arm: the offset is computed, the buffer is stored,
\* and the offset is written as a word.
LoopDynamic ==
    /\ pc = "loop"
    /\ idx < Len(tokens)
    /\ LET s == Serialize(tokens[idx + 1], overflow_checks)
           dynamic_offset == DynamicOffset(dynamic_data, Len(tokens))
           offset == SerializeUint(FromU64(dynamic_offset))
       IN  /\ s.tag = "Dynamic"
           /\ last' = s
           /\ IF offset.tag = "Static"
              THEN /\ dynamic_data' = Append(dynamic_data, s.data)
                   /\ res' = res \o offset.data
                   /\ UNCHANGED <<pc, panic, wtr, cat, ret, call_ret>>
              ELSE Unwind(IF offset.tag = "Panic" THEN offset.panic
                          ELSE "Offset token is expected to be static")
    /\ idx' = idx + 1
    /\ UNCHANGED <<frames, tokens, overflow_checks, sig, caller>>

\* One iteration in which token.serialize() panics.
LoopPanic ==
    /\ pc = "loop"
    /\ idx < Len(tokens)
    /\ LET s == Serialize(tokens[idx + 1], overflow_checks)
       IN  /\ s.tag = "Panic"
           /\ last' = s
           /\ Unwind(s.panic)
    /\ UNCHANGED <<frames, tokens, overflow_checks, sig, idx, caller>>

\* The first loop ends.
LoopExit ==
    /\ pc = "loop"
    /\ idx = Len(tokens)
    /\ pc' = "concat"
    /\ UNCHANGED <<frames, tokens, overflow_checks, sig, idx, last, res, dynamic_data,
                   cat, ret, wtr, call_ret, caller, panic>>

\* One iteration of `for data in dynamic_data.iter()`.
ConcatStep ==
    /\ pc = "concat"
    /\ cat < Len(dynamic_data)
    /\ res' = res \o NextBuffer(dynamic_data, cat)
    /\ cat' = cat + 1
    /\ UNCHANGED <<frames, tokens, overflow_checks, sig, pc, idx, last, dynamic_data,
                   ret, wtr, call_ret, caller, panic>>

\* encode_tokens returns res.
Return ==
    /\ pc = "concat"
    /\ cat = Len(dynamic_data)
    /\ ret' = Returned(res)
    /\ pc' = "done"
    /\ UNCHANGED <<frames, tokens, overflow_checks, sig, idx, last, res, dynamic_data,
                   cat, wtr, call_ret, caller, panic>>

Next ==
    \/ LoopStatic
    \/ LoopDynamic
    \/ LoopPanic
    \/ LoopExit
    \/ ConcatStep
    \/ Return

Spec == Init /\ [][Next]_vars

----------------------------------------------------------------------------
(* encode_call around encode_tokens. *)

\* A call of encode_call.
CallInit ==
    /\ \E n \in 0..MaxTokens :
         \E f \in [1..n -> 1..Len(CoreTokens)] :
            tokens = [k \in 1..n |-> CoreTokens[f[k]]]
    /\ overflow_checks \in BOOLEAN
    /\ \E k \in 1..Len(Signatures) : sig = Signatures[k]
    /\ caller = "encode_call"
    /\ pc = "encode_call"
    /\ Fresh
    /\ frames = <<>>

\* `wtr.extend(&derive_method_id(sig))`, then encode_tokens is entered.
CallBegin ==
    /\ pc = "encode_call"
    /\ wtr' = wtr \o derive_method_id(sig)
    /\ pc' = "loop"
    /\ UNCHANGED <<frames, tokens, overflow_checks, sig, idx, last, res, dynamic_data,
                   cat, ret, call_ret, caller, panic>>

\* `wtr.extend(encode_tokens(tokens)); wtr`
CallEnd ==
    /\ pc = "done"
    /\ caller = "encode_call"
    /\ wtr' = wtr \o ret.bytes
    /\ call_ret' = Returned(wtr')
    /\ pc' = "call_done"
    /\ UNCHANGED <<frames, tokens, overflow_checks, sig, idx, last, res, dynamic_data,
                   cat, ret, caller, panic>>

CallNext ==
    \/ CallBegin
    \/ LoopStatic
    \/ LoopDynamic
    \/ LoopPanic
    \/ LoopExit
    \/ ConcatStep
    \/ Return
    \/ CallEnd

CallSpec == CallInit /\ [][CallNext]_vars

----------------------------------------------------------------------------
(* Vocabulary of the properties. *)

\* The kinds whose serialization is variable-length.
IsVariable(token) == token.kind \in {"String", "UnboundedBytes", "Dynamic"}

\* Word number i (from 1) of a buffer.
WordAt(buf, i) == SubSeq(buf, 32 * (i - 1) + 1, 32 * i)

\* w is the 32-byte big-endian encoding of n (n below 2^31).
IsWordOf(w, n) ==
    /\ Len(w) = 32
    /\ \A k \in 1..28 : w[k] = 0
    /\ w[29] * 16777216 + w[30] * 65536 + w[31] * 256 + w[32] = n

\* The blob token number i of the argument serializes to.
BlobOf(i) == Serialize(tokens[i], overflow_checks).data

\* Total length of the blobs of the variable-length tokens before number i.
RECURSIVE BlobBytesBefore(_)
BlobBytesBefore(i) ==
    IF i <= 1 THEN 0
    ELSE BlobBytesBefore(i - 1)
         + (IF IsVariable(tokens[i - 1]) THEN Len(BlobOf(i - 1)) ELSE 0)

\* The out-of-range values: an oversized integer, oversized fixed bytes, an
\* array with an element that is variable-length or itself out of range.
RECURSIVE OutOfRange(_)
OutOfRange(token) ==
    \/ token.kind = "Uint" /\ bits(token.v) > 256
    \/ token.kind = "Bytes" /\ Len(token.v) > 32
    \/ token.kind = "Dynamic"
          /\ \E k \in 1..Len(token.v) :
                IsVariable(token.v[k]) \/ OutOfRange(token.v[k])

HasOutOfRange == \E i \in 1..Len(tokens) : OutOfRange(tokens[i])

FirstOutOfRange ==
    CHOOSE i \in 1..Len(tokens) :
        OutOfRange(tokens[i]) /\ \A j \in 1..(i - 1) : ~OutOfRange(tokens[j])

----------------------------------------------------------------------------
(* Properties of encode_tokens' output. *)

\* C1: in the returned output of N tokens, for every variable-length token at
\* position i, head word i encodes 32*N plus the lengths of the blobs of the
\* variable-length tokens before i, and the token's blob lies at that byte
\* index of the output.
C1_OffsetsPointAtBlobs ==
    pc = "done" =>
        \A i \in 1..Len(tokens) :
            IsVariable(tokens[i]) =>
                LET off == 32 * Len(tokens) + BlobBytesBefore(i)
                IN  /\ IsWordOf(WordAt(ret.bytes, i), off)
                    /\ SubSeq(ret.bytes, off + 1, off + Len(BlobOf(i))) = BlobOf(i)

\* A returned output with a variable-length token behind another one and a
\* fixed one between them.
C1_Witness ==
    /\ pc = "done"
    /\ Len(tokens) = 3
    /\ IsVariable(tokens[1])
    /\ ~IsVariable(tokens[2])
    /\ IsVariable(tokens[3])

\* C2: whenever encode_tokens returns, the length of the output is a multiple
\* of 32.
C2_LengthMultipleOf32 ==
    ret.returned => Len(ret.bytes) % 32 = 0

\* A returned output of a sequence holding an empty String and a String whose
\* length is no multiple of 32.
C2_Witness ==
    /\ ret.returned
    /\ \E i, j \in 1..Len(tokens) :
          /\ tokens[i].kind = "String" /\ Len(tokens[i].v) = 0
          /\ tokens[j].kind = "String" /\ Len(tokens[j].v) % 32 # 0

\* C3: with an out-of-range value in the argument, the call never returns
\* bytes: the first loop does not get past the first such value, and the
\* panic leaves no buffer behind.
C3_OutOfRangeNeverReturns ==
    HasOutOfRange =>
        /\ ~ret.returned
        /\ ~call_ret.returned
        /\ pc \in {"encode_call", "loop", "panicked"}
        /\ idx < FirstOutOfRange
        /\ (pc = "panicked" => res = <<>> /\ dynamic_data = <<>> /\ wtr = <<>>)

\* The panic on an out-of-range value in third place, after a variable-length
\* and a fixed value have been consumed.
C3_Witness ==
    /\ pc = "panicked"
    /\ HasOutOfRange
    /\ FirstOutOfRange = 3
    /\ idx = 2
    /\ IsVariable(tokens[1])
    /\ last.tag = "Panic"

----------------------------------------------------------------------------
(* Properties of Token::serialize, read off the first loop: `last` is what
   serialize gave for LastToken. *)

HasLast == last.tag # "None"

\* The token `last` is the serialization of: a panic leaves idx behind.
LastToken == IF last.tag = "Panic" THEN tokens[idx + 1] ELSE tokens[idx]

IsBuffer(token) == token.kind \in {"String", "UnboundedBytes"}

\* buf is zero from byte number from on.
ZeroFrom(buf, from) == \A k \in from..Len(buf) : buf[k] = 0

\* C4: a zero-length String or UnboundedBytes serializes, without an error, to
\* a variable-length blob of exactly 32 bytes, the all-zero length word.
C4_EmptyPayloadSerializes ==
    (HasLast /\ IsBuffer(LastToken) /\ Len(LastToken.v) = 0) =>
        /\ last.tag = "Dynamic"
        /\ last.data = Zeros(32)
        /\ pc # "panicked"

\* C5: a String or UnboundedBytes of L bytes serializes to a variable-length
\* blob of 32 + 32*ceil(L/32) bytes: the word of L, the L payload bytes, zero
\* bytes after them; and both kinds serialize the same bytes alike.
C5_BufferBlob ==
    (HasLast /\ IsBuffer(LastToken)) =>
        LET v == LastToken.v
            L == Len(v)
        IN  /\ last.tag = "Dynamic"
            /\ Len(last.data) = 32 + 32 * ((L + 31) \div 32)
            /\ IsWordOf(WordAt(last.data, 1), L)
            /\ SubSeq(last.data, 33, 32 + L) = v
            /\ ZeroFrom(last.data, 33 + L)
            /\ SerializeString(v, overflow_checks)
                    = SerializeUnboundedBytes(v, overflow_checks)

\* C6: a Uint of at most 256 bits serializes to a fixed word of 32 bytes which,
\* read back as a big-endian unsigned integer, is the value.
C6_UintRoundTrip ==
    (HasLast /\ LastToken.kind = "Uint" /\ bits(LastToken.v) <= 256) =>
        /\ last.tag = "Static"
        /\ Len(last.data) = 32
        /\ from_bytes_be(last.data) = LastToken.v
        /\ \A k \in 1..(32 - Len(to_bytes_be(LastToken.v))) : last.data[k] = 0

\* 2^256 - 1 has been serialized.
C6_Witness ==
    /\ HasLast
    /\ last.tag = "Static"
    /\ LastToken.kind = "Uint"
    /\ bits(LastToken.v) = 256
    /\ \A k \in 1..32 : LastToken.v[k] = 255

\* C7: Bytes of L <= 32 bytes serialize to a fixed word that starts with the
\* payload and is zero after it; Bytes of more than 32 bytes fail; a Uint and
\* an Address stand at the end of their word instead, behind zeros.
C7_BytesLeftAligned ==
    /\ (HasLast /\ LastToken.kind = "Bytes") =>
          LET v == LastToken.v
          IN  IF Len(v) <= 32
              THEN /\ last.tag = "Static"
                   /\ Len(last.data) = 32
                   /\ SubSeq(last.data, 1, Len(v)) = v
                   /\ ZeroFrom(last.data, Len(v) + 1)
              ELSE last.tag = "Panic" /\ pc = "panicked" /\ ~ret.returned
    /\ (HasLast /\ LastToken.kind = "Address") =>
          /\ last.tag = "Static"
          /\ SubSeq(last.data, 13, 32) = LastToken.v
          /\ \A k \in 1..12 : last.data[k] = 0
    /\ (HasLast /\ LastToken.kind = "Uint" /\ last.tag = "Static") =>
          LET bytes == to_bytes_be(LastToken.v)
          IN  /\ SubSeq(last.data, 33 - Len(bytes), 32) = bytes
              /\ \A k \in 1..(32 - Len(bytes)) : last.data[k] = 0

\* Bytes shorter than a word have been serialized.
C7_Witness ==
    /\ HasLast
    /\ last.tag = "Static"
    /\ LastToken.kind = "Bytes"
    /\ Len(LastToken.v) \in 1..31

\* C8: a Dynamic of n elements that each serialize to a fixed word serializes
\* to a variable-length blob of 32*(n+1) bytes: the word of n, then the
\* elements' words in the array's order.
C8_ArrayBlob ==
    (/\ HasLast
     /\ LastToken.kind = "Dynamic"
     /\ \A k \in 1..Len(LastToken.v) :
            Serialize(LastToken.v[k], overflow_checks).tag = "Static") =>
        LET elems == LastToken.v
            n == Len(elems)
        IN  /\ last.tag = "Dynamic"
            /\ Len(last.data) = 32 * (n + 1)
            /\ IsWordOf(WordAt(last.data, 1), n)
            /\ \A k \in 1..n :
                  WordAt(last.data, k + 1)
                      = Serialize(elems[k], overflow_checks).data

\* An array of three fixed elements, not all alike, has been serialized.
C8_Witness ==
    /\ HasLast
    /\ last.tag = "Dynamic"
    /\ LastToken.kind = "Dynamic"
    /\ Len(LastToken.v) = 3
    /\ WordAt(last.data, 2) # WordAt(last.data, 4)

----------------------------------------------------------------------------
(* Head and tail. *)

\* The blobs of the variable-length tokens from number i on, in order.
RECURSIVE BlobsFrom(_)
BlobsFrom(i) ==
    IF i > Len(tokens) THEN <<>>
    ELSE IF IsVariable(tokens[i]) THEN BlobOf(i) \o BlobsFrom(i + 1)
    ELSE BlobsFrom(i + 1)

\* w is a word holding a byte index into the tail of out.
IsOffsetWord(w, out) ==
    /\ Len(w) = 32
    /\ \A k \in 1..28 : w[k] = 0
    /\ LET n == w[29] * 16777216 + w[30] * 65536 + w[31] * 256 + w[32]
       IN  32 * Len(tokens) <= n /\ n < Len(out)

\* C9: the returned output of N tokens is a head of exactly N words, word i
\* being token i's serialized word when it is fixed-size and an offset word
\* when it is variable-length, followed by the blobs of the variable-length
\* tokens in input order and nothing else.
C9_HeadThenTail ==
    pc = "done" =>
        LET out == ret.bytes
            N == Len(tokens)
        IN  /\ Len(out) = 32 * N + Len(BlobsFrom(1))
            /\ SubSeq(out, 32 * N + 1, Len(out)) = BlobsFrom(1)
            /\ \A i \in 1..N :
                  IF IsVariable(tokens[i])
                  THEN IsOffsetWord(WordAt(out, i), out)
                  ELSE WordAt(out, i)
                          = Serialize(tokens[i], overflow_checks).data

\* A returned output of two variable-length tokens with different blobs and a
\* fixed token.
C9_Witness ==
    /\ pc = "done"
    /\ Len(tokens) = 3
    /\ IsVariable(tokens[1])
    /\ IsVariable(tokens[2])
    /\ ~IsVariable(tokens[3])
    /\ BlobOf(1) # BlobOf(2)

----------------------------------------------------------------------------
(* encode_call. *)

HasEmptyBuffer ==
    \E i \in 1..Len(tokens) : IsBuffer(tokens[i]) /\ Len(tokens[i].v) = 0

\* C10: encode_call returns the first 4 bytes of derive_signature(sig)
\* followed by what encode_tokens returned, 4 bytes longer than it; and the
\* signature has no part in whether the call fails.
C10_SelectorThenArguments ==
    /\ pc = "call_done" =>
          /\ ret.returned
          /\ call_ret.returned
          /\ call_ret.bytes = SubSeq(derive_signature(sig), 1, 4) \o ret.bytes
          /\ Len(call_ret.bytes) = 4 + Len(ret.bytes)
    /\ pc = "panicked" => HasOutOfRange \/ (overflow_checks /\ HasEmptyBuffer)

\* encode_call has returned for "baz(uint32,bool)" with two values that are
\* not a uint32 and a bool.
C10_Witness ==
    /\ pc = "call_done"
    /\ sig = "baz(uint32,bool)"
    /\ Len(tokens) = 2
    /\ tokens[1].kind = "String"
    /\ tokens[2].kind = "Dynamic"

----------------------------------------------------------------------------
(* The first loop, step by step. *)

\* Total length of the buffers of a cache.
RECURSIVE TotalLen(_)
TotalLen(bufs) ==
    IF bufs = <<>> THEN 0 ELSE Len(Head(bufs)) + TotalLen(Tail(bufs))

\* While the first loop runs: after k = idx tokens the head holds 32*k bytes,
\* and the offset the loop would compute next is 32*N plus the total length of
\* the blobs stored so far, which are the blobs of the first k tokens.
C12_LoopInvariant ==
    pc = "loop" =>
        /\ Len(res) = 32 * idx
        /\ TotalLen(dynamic_data) = BlobBytesBefore(idx + 1)
        /\ DynamicOffset(dynamic_data, Len(tokens))
              = 32 * Len(tokens) + TotalLen(dynamic_data)

\* A step that does not panic leaves every byte of res in place; a step that
\* stores a blob appends the word of the offset computed from the blobs
\* stored before the step, the stored blob left out.
C12_LoopStep ==
    pc' # "panicked" =>
        /\ Len(res') >= Len(res)
        /\ SubSeq(res', 1, Len(res)) = res
        /\ Len(dynamic_data') = Len(dynamic_data) + 1 =>
              /\ SubSeq(dynamic_data', 1, Len(dynamic_data)) = dynamic_data
              /\ IsWordOf(SubSeq(res', Len(res) + 1, Len(res')),
                          32 * Len(tokens) + TotalLen(dynamic_data))

\* C12: during one pass over N tokens, after k tokens the head holds exactly
\* 32*k bytes and the running tail total is the sum of the lengths of the
\* blobs queued so far; an appended head word is never changed by a later
\* step; the offset of a variable-length token is computed before its own
\* blob is queued.
C12_ForwardPass == []C12_LoopInvariant /\ [][C12_LoopStep]_vars

\* Two blobs are queued, two head words are written and a token is left.
C12_Witness ==
    /\ pc = "loop"
    /\ idx = 2
    /\ Len(dynamic_data) = 2
    /\ Len(tokens) = 3

----------------------------------------------------------------------------
(* The defensive failures. *)

\* C13: the offset computed for a variable-length token always serializes to
\* a fixed word, so the offset step never panics ("Offset token is expected
\* to be static" is never the message, and a panic always comes from
\* token.serialize() of the token at idx + 1); and the length or count prefix
\* of a String, UnboundedBytes or Dynamic always serializes to a fixed word.
C13_OffsetAndPrefixStatic ==
    /\ panic # "Offset token is expected to be static"
    /\ panic # "called Option::unwrap() on a None value"
    /\ pc = "panicked" => last.tag = "Panic" /\ panic = last.panic
    /\ pc = "loop" =>
          SerializeUint(FromU64(DynamicOffset(dynamic_data, Len(tokens)))).tag
              = "Static"
    /\ (HasLast /\ IsVariable(LastToken)) =>
          Prefix(Len(LastToken.v)).tag = "Static"

\* The offset step has written an offset of more than one byte for a third
\* variable-length token.
C13_Witness ==
    /\ pc = "loop"
    /\ last.tag = "Dynamic"
    /\ Len(dynamic_data) = 3
    /\ Len(res) = 32 * idx
    /\ DynamicOffset(SubSeq(dynamic_data, 1, 2), Len(tokens)) >= 256

----------------------------------------------------------------------------
(* Several encode_tokens calls in flight at once, each on its own locals. *)

Calls == 1..3

\* The tokens the two like calls' argument is drawn from.
PairTokens ==
    << Bool(TRUE),
       String(Dave),
       Dynamic(<<Uint(<<1>>), Uint(<<2>>), Uint(<<3>>)>>) >>

\* The arguments of the third call.
OtherInputs ==
    << <<Dynamic(<<Uint(<<4, 86>>), Uint(<<7, 137>>)>>), String(Dave)>>,
       <<UnboundedBytes(Payload(32)), Bytes(Payload(33))>> >>

\* The locals of a call on argument toks that has run no step.
Frame(toks) ==
    [tokens |-> toks, pc |-> "loop", idx |-> 0, res |-> <<>>,
     dynamic_data |-> <<>>, cat |-> 0, ret |-> NotReturned]

\* The variables of the single call, which stay as they are here.
single ==
    <<tokens, sig, pc, idx, last, res, dynamic_data, cat, ret, wtr, call_ret,
      caller, panic>>

\* Calls 1 and 2 are given equal arguments, call 3 another one.
PairInit ==
    /\ \E n \in 0..MaxTokens :
         \E f \in [1..n -> 1..Len(PairTokens)] :
            \E o \in 1..Len(OtherInputs) :
               LET toks == [k \in 1..n |-> PairTokens[f[k]]]
               IN  frames = <<Frame(toks), Frame(toks), Frame(OtherInputs[o])>>
    /\ overflow_checks \in BOOLEAN
    /\ tokens = <<>>
    /\ sig = ""
    /\ caller = ""
    /\ pc = "unused"
    /\ Fresh

\* A cache that every call appends to and folds over.
CacheOfAll(c) ==
    frames[1].dynamic_data \o frames[2].dynamic_data \o frames[3].dynamic_data

\* The dynamic_data call c folds its offset over: its own local.
CacheOf(c) == frames[c].dynamic_data

\* Call c panics: its locals are dropped, it returns nothing.
FrameUnwind(c) ==
    frames' = [frames EXCEPT ![c].pc = "panicked", ![c].res = <<>>,
                             ![c].dynamic_data = <<>>]

PairLoopStatic(c) ==
    LET f == frames[c]
    IN  /\ f.pc = "loop"
        /\ f.idx < Len(f.tokens)
        /\ LET s == Serialize(f.tokens[f.idx + 1], overflow_checks)
           IN  /\ s.tag = "Static"
               /\ frames' = [frames EXCEPT ![c].res = f.res \o s.data,
                                           ![c].idx = f.idx + 1]
        /\ UNCHANGED <<overflow_checks, single>>

PairLoopDynamic(c) ==
    LET f == frames[c]
    IN  /\ f.pc = "loop"
        /\ f.idx < Len(f.tokens)
        /\ LET s == Serialize(f.tokens[f.idx + 1], overflow_checks)
               dynamic_offset == DynamicOffset(CacheOf(c), Len(f.tokens))
               offset == SerializeUint(FromU64(dynamic_offset))
           IN  /\ s.tag = "Dynamic"
               /\ IF offset.tag = "Static"
                  THEN frames' =
                          [frames EXCEPT
                              ![c].dynamic_data = Append(f.dynamic_data, s.data),
                              ![c].res = f.res \o offset.data,
                              ![c].idx = f.idx + 1]
                  ELSE FrameUnwind(c)
        /\ UNCHANGED <<overflow_checks, single>>

PairLoopPanic(c) ==
    LET f == frames[c]
    IN  /\ f.pc = "loop"
        /\ f.idx < Len(f.tokens)
        /\ Serialize(f.tokens[f.idx + 1], overflow_checks).tag = "Panic"
        /\ FrameUnwind(c)
        /\ UNCHANGED <<overflow_checks, single>>

PairLoopExit(c) ==
    LET f == frames[c]
    IN  /\ f.pc = "loop"
        /\ f.idx = Len(f.tokens)
        /\ frames' = [frames EXCEPT ![c].pc = "concat"]
        /\ UNCHANGED <<overflow_checks, single>>

PairConcatStep(c) ==
    LET f == frames[c]
    IN  /\ f.pc = "concat"
        /\ f.cat < Len(f.dynamic_data)
        /\ frames' = [frames EXCEPT
                         ![c].res = f.res \o NextBuffer(f.dynamic_data, f.cat),
                         ![c].cat = f.cat + 1]
        /\ UNCHANGED <<overflow_checks, single>>

PairReturn(c) ==
    LET f == frames[c]
    IN  /\ f.pc = "concat"
        /\ f.cat = Len(f.dynamic_data)
        /\ frames' = [frames EXCEPT ![c].ret = Returned(f.res),
                                    ![c].pc = "done"]
        /\ UNCHANGED <<overflow_checks, single>>

\* Any call in flight takes its next step.
PairNext ==
    \/ \E c \in Calls : PairLoopStatic(c)
    \/ \E c \in Calls : PairLoopDynamic(c)
    \/ \E c \in Calls : PairLoopPanic(c)
    \/ \E c \in Calls : PairLoopExit(c)
    \/ \E c \in Calls : PairConcatStep(c)
    \/ \E c \in Calls : PairReturn(c)

PairSpec == PairInit /\ [][PairNext]_vars

\* Element-wise equality of tokens and of token sequences.
RECURSIVE SameToken(_, _)
SameToken(a, b) ==
    /\ a.kind = b.kind
    /\ IF a.kind = "Dynamic"
       THEN /\ Len(a.v) = Len(b.v)
            /\ \A k \in 1..Len(a.v) : SameToken(a.v[k], b.v[k])
       ELSE a.v = b.v

SameTokens(s, t) ==
    /\ Len(s) = Len(t)
    /\ \A k \in 1..Len(s) : SameToken(s[k], t[k])

\* C11: two calls on element-wise equal arguments return byte-identical
\* output, and hold equal buffers whenever they stand at the same step,
\* however their steps and those of a call on another argument interleave.
C11_EqualInputsEqualOutputs ==
    \A c, d \in Calls :
        SameTokens(frames[c].tokens, frames[d].tokens) =>
            /\ (frames[c].ret.returned /\ frames[d].ret.returned) =>
                  frames[c].ret.bytes = frames[d].ret.bytes
            /\ (frames[c].pc = frames[d].pc /\ frames[c].idx = frames[d].idx
                    /\ frames[c].cat = frames[d].cat) =>
                  /\ frames[c].res = frames[d].res
                  /\ frames[c].dynamic_data = frames[d].dynamic_data

\* Both like calls have returned an output holding two blobs while the call
\* on the other argument is in its first loop with a blob stored.
C11_Witness ==
    /\ frames # <<>>
    /\ frames[1].ret.returned
    /\ frames[2].ret.returned
    /\ Len(frames[1].dynamic_data) = 2
    /\ Len(frames[1].ret.bytes) > 0
    /\ frames[3].pc = "loop"
    /\ Len(frames[3].dynamic_data) = 1

====
